---- MODULE Spec2Model ----
(***************************************************************************)
(* BlockBay-Nozama on-chain core: ListingRegistry (stock ledger), Escrow   *)
(* (custody vault) and OrderManager (order coordinator).                   *)
(*                                                                         *)
(* Every external call is one transaction: it commits completely or it     *)
(* reverts and leaves the chain state as it was.  A reverted call is       *)
(* therefore no transition; what it answers is given by the ...Check and   *)
(* ...Result operators, which return the kind of the first failing         *)
(* require of the function ("OK" when all pass).  The only step inside a   *)
(* transaction that is modelled on its own is the external value transfer  *)
(* of releaseEscrow / refundEscrow, during which the recipient may call    *)
(* back into the vault.                                                     *)
(***************************************************************************)
EXTENDS Integers, Sequences, FiniteSets, TLC

\* ---------------------------------------------------------------- bounds
MaxTime == 14
MaxAmount == 2
MaxPrice == 2
MaxStock == 2
MaxQty == 2

\* ------------------------------------------------------ program constants
\* Durations in days.
ESCROW_PERIOD == 14
DISPUTE_WINDOW == 7

\* The block timestamps that are observed are one dispute window apart.
ClockStep == DISPUTE_WINDOW

\* ------------------------------------------------------------- addresses
ZeroAddr == "0x0"
\* The deployer: owner() of Escrow and of OrderManager.
Owner == "admin"
\* The address of the OrderManager contract (msg.sender of its nested calls).
OM == "OrderManager"
Users == {"buyer", "seller", "admin", "other"}
Callers == Users \cup {OM}

OrderIds == {"o1", "o2"}
ListingIds == {"L1"}

\* bytes32(0)
NoEscrow == <<>>

\* A value transfer to the OrderManager contract cannot complete: the contract
\* declares neither receive() nor a payable fallback.  Any other address is an
\* account or a contract of unknown code and may take the value.
CanReceive(a) == a # OM

VARIABLES
    listings,       \* ListingRegistry.listings
    stockLog,       \* history: per listing, stock at creation and units decremented
    orders,         \* OrderManager.orders
    escrows,        \* Escrow.escrows, on the ids created so far
    orderToEscrow,  \* Escrow.orderToEscrow
    vaultBalance,   \* the value held by the Escrow contract
    transfers,      \* history: per escrow id, the completed transfers out
    inflight,       \* the transfer of a release/refund that is executing
    now,            \* block.timestamp
    pending,        \* createOrder transactions submitted and not yet committed
    receipts,       \* outcome of the committed createOrder transactions
    handlers,       \* payment-service indexer: the event handlers started, by <<escrow id, event>>
    indexed         \* payment-service indexer: the EscrowModel documents, by escrow id

vars == <<listings, stockLog, orders, escrows, orderToEscrow,
          vaultBalance, transfers, inflight, now, pending, receipts,
          handlers, indexed>>

ledgerVars == <<listings, stockLog>>
orderVars == <<orders>>
vaultVars == <<escrows, orderToEscrow, vaultBalance, transfers, inflight>>
indexVars == <<handlers, indexed>>
poolVars == <<pending, receipts, indexVars>>

NoTransfer == [op |-> "none"]

\* ================================================================ Escrow

\* The zero-initialised struct a mapping returns for a key never written.
ZeroEscrow ==
    [escrowId |-> NoEscrow, orderId |-> "", buyer |-> ZeroAddr, seller |-> ZeroAddr,
     amount |-> 0, state |-> "Locked", createdAt |-> 0, releaseTime |-> 0,
     disputed |-> FALSE]

Esc(e) == IF e \in DOMAIN escrows THEN escrows[e] ELSE ZeroEscrow

\* keccak256(abi.encodePacked(_orderId, msg.sender, block.timestamp))
EscrowIdOf(orderId, sender, t) == <<orderId, sender, t>>

\* The nonReentrant modifier of Escrow: set while a guarded function executes.
Entered == inflight.op # "none"

\* The escrow records the chain holds if the executing transaction reverts:
\* those saved at its start while a transfer executes, the current ones otherwise.
CommittedEscrows == IF Entered THEN inflight.saved ELSE escrows

\* createEscrow's requires; the variant leaves out the check of orderToEscrow.
CreateEscrowCheckNoDup(orderId, payee, sender, value) ==
    IF ~(value > 0) THEN "InvalidInput"
    ELSE IF payee = ZeroAddr THEN "InvalidInput"
    ELSE IF payee = sender THEN "InvalidInput"
    ELSE "OK"
CreateEscrowCheck(orderId, payee, sender, value) ==
    IF ~(value > 0) THEN "InvalidInput"
    ELSE IF payee = ZeroAddr THEN "InvalidInput"
    ELSE IF payee = sender THEN "InvalidInput"
    ELSE IF orderToEscrow[orderId] # NoEscrow THEN "AlreadyExists"
    ELSE "OK"

CreateEscrowResult(orderId, payee, sender, value) ==
    IF Entered THEN "ReentrantCall" ELSE CreateEscrowCheck(orderId, payee, sender, value)

\* The record createEscrow stores; the variant does not record msg.value.
NewEscrowNoAmount(orderId, payee, sender, value) ==
    [escrowId |-> EscrowIdOf(orderId, sender, now), orderId |-> orderId,
     buyer |-> sender, seller |-> payee, amount |-> 0, state |-> "Locked",
     createdAt |-> now, releaseTime |-> now + ESCROW_PERIOD, disputed |-> FALSE]
\* A second variant: the holding period is not added to the release time.
NewEscrowNoDeadline(orderId, payee, sender, value) ==
    [escrowId |-> EscrowIdOf(orderId, sender, now), orderId |-> orderId,
     buyer |-> sender, seller |-> payee, amount |-> value, state |-> "Locked",
     createdAt |-> now, releaseTime |-> now, disputed |-> FALSE]
NewEscrow(orderId, payee, sender, value) ==
    [escrowId |-> EscrowIdOf(orderId, sender, now), orderId |-> orderId,
     buyer |-> sender, seller |-> payee, amount |-> value, state |-> "Locked",
     createdAt |-> now, releaseTime |-> now + ESCROW_PERIOD, disputed |-> FALSE]

\* The vault's part of a successful createEscrow; the variant records the
\* escrow without taking the value.
CreateEscrowEffectNoCustody(orderId, payee, sender, value) ==
    LET id == EscrowIdOf(orderId, sender, now) IN
    /\ escrows' = [e \in DOMAIN escrows \cup {id} |->
                      IF e = id THEN NewEscrow(orderId, payee, sender, value)
                      ELSE escrows[e]]
    /\ orderToEscrow' = [orderToEscrow EXCEPT ![orderId] = id]
    /\ transfers' = [e \in DOMAIN escrows \cup {id} |->
                        IF e \in DOMAIN transfers THEN transfers[e] ELSE <<>>]
    /\ UNCHANGED <<vaultBalance, inflight>>
CreateEscrowEffect(orderId, payee, sender, value) ==
    LET id == EscrowIdOf(orderId, sender, now) IN
    /\ escrows' = [e \in DOMAIN escrows \cup {id} |->
                      IF e = id THEN NewEscrow(orderId, payee, sender, value)
                      ELSE escrows[e]]
    /\ orderToEscrow' = [orderToEscrow EXCEPT ![orderId] = id]
    /\ vaultBalance' = vaultBalance + value
    /\ transfers' = [e \in DOMAIN escrows \cup {id} |->
                        IF e \in DOMAIN transfers THEN transfers[e] ELSE <<>>]
    /\ UNCHANGED inflight

CreateEscrow(orderId, payee, sender, value) ==
    /\ CreateEscrowResult(orderId, payee, sender, value) = "OK"
    /\ CreateEscrowEffect(orderId, payee, sender, value)
    /\ UNCHANGED <<ledgerVars, orderVars, now, poolVars>>

\* releaseEscrow's requires; the variant opens the release to everybody only
\* after the deadline has passed, not at the deadline.
ReleaseCheckStrict(e, sender) ==
    IF Esc(e).escrowId = NoEscrow THEN "NotFound"
    ELSE IF Esc(e).state # "Locked" THEN "WrongState"
    ELSE IF Esc(e).disputed THEN "WrongState"
    ELSE IF ~(sender = Esc(e).buyer \/ sender = Owner \/ now > Esc(e).releaseTime)
         THEN "Unauthorized"
    ELSE "OK"
ReleaseCheck(e, sender) ==
    IF Esc(e).escrowId = NoEscrow THEN "NotFound"
    ELSE IF Esc(e).state # "Locked" THEN "WrongState"
    ELSE IF Esc(e).disputed THEN "WrongState"
    ELSE IF ~(sender = Esc(e).buyer \/ sender = Owner \/ now >= Esc(e).releaseTime)
         THEN "Unauthorized"
    ELSE "OK"

ReleaseResult(e, sender) ==
    IF Entered THEN "ReentrantCall" ELSE ReleaseCheck(e, sender)

\* refundEscrow's requires; the variant also lets the escrow's buyer refund.
RefundCheckPayerAllowed(e, sender) ==
    IF Esc(e).escrowId = NoEscrow THEN "NotFound"
    ELSE IF Esc(e).state # "Locked" THEN "WrongState"
    ELSE IF ~(\/ sender = Esc(e).seller
              \/ sender = Esc(e).buyer
              \/ sender = Owner
              \/ (Esc(e).disputed /\ now >= Esc(e).createdAt + DISPUTE_WINDOW))
         THEN "Unauthorized"
    ELSE "OK"
RefundCheck(e, sender) ==
    IF Esc(e).escrowId = NoEscrow THEN "NotFound"
    ELSE IF Esc(e).state # "Locked" THEN "WrongState"
    ELSE IF ~(\/ sender = Esc(e).seller
              \/ sender = Owner
              \/ (Esc(e).disputed /\ now >= Esc(e).createdAt + DISPUTE_WINDOW))
         THEN "Unauthorized"
    ELSE "OK"

RefundResult(e, sender) ==
    IF Entered THEN "ReentrantCall" ELSE RefundCheck(e, sender)

\* canAutoRelease: a view over the stored record, which for an id without a
\* record is the zero struct.
CanAutoRelease(e) ==
    /\ Esc(e).state = "Locked"
    /\ ~Esc(e).disputed
    /\ now >= Esc(e).releaseTime

\* initiateDispute's requires; the variant leaves out the check of the state.
InitiateDisputeCheckNoState(e, sender) ==
    IF Esc(e).escrowId = NoEscrow THEN "NotFound"
    ELSE IF Esc(e).disputed THEN "WrongState"
    ELSE IF ~(sender = Esc(e).buyer \/ sender = Esc(e).seller) THEN "Unauthorized"
    ELSE "OK"
InitiateDisputeCheckAnyCaller(e, sender) ==
    IF Esc(e).escrowId = NoEscrow THEN "NotFound"
    ELSE IF Esc(e).state # "Locked" THEN "WrongState"
    ELSE IF Esc(e).disputed THEN "WrongState"
    ELSE "OK"
InitiateDisputeCheck(e, sender) ==
    IF Esc(e).escrowId = NoEscrow THEN "NotFound"
    ELSE IF Esc(e).state # "Locked" THEN "WrongState"
    ELSE IF Esc(e).disputed THEN "WrongState"
    ELSE IF ~(sender = Esc(e).buyer \/ sender = Esc(e).seller) THEN "Unauthorized"
    ELSE "OK"

\* The escrow records as the external transfer of releaseEscrow finds them; in
\* the variant the state is not written before the transfer.
ReleaseWriteSkipped(e) == escrows
ReleaseWrite(e) == [escrows EXCEPT ![e].state = "Released"]

\* The escrow records as the external transfer of refundEscrow finds them; in
\* the variant the state is not written before the transfer.
RefundWriteSkipped(e) == escrows
RefundWrite(e) == [escrows EXCEPT ![e].state = "Refunded"]

\* The recipient and the records at the transfer, per operation.
Recipient(op, e) == IF op = "release" THEN Esc(e).seller ELSE Esc(e).buyer
WriteOf(op, e) == IF op = "release" THEN ReleaseWrite(e) ELSE RefundWrite(e)
ResultOf(op, e, sender) ==
    IF op = "release" THEN ReleaseResult(e, sender) ELSE RefundResult(e, sender)

\* The call{value: amount}("") can complete: the vault holds the value and
\* the recipient takes it.
TransferCompletes(op, e) ==
    /\ vaultBalance >= Esc(e).amount
    /\ CanReceive(Recipient(op, e))

\* The vault's part of a release/refund whose transfer the recipient takes at once.
PayoutEffectKeepsValue(op, e) ==
    /\ TransferCompletes(op, e)
    /\ escrows' = WriteOf(op, e)
    /\ transfers' = [transfers EXCEPT
                       ![e] = Append(@, [to |-> Recipient(op, e), amount |-> Esc(e).amount])]
    /\ UNCHANGED <<vaultBalance, orderToEscrow, inflight>>
PayoutEffect(op, e) ==
    /\ TransferCompletes(op, e)
    /\ escrows' = WriteOf(op, e)
    /\ vaultBalance' = vaultBalance - Esc(e).amount
    /\ transfers' = [transfers EXCEPT
                       ![e] = Append(@, [to |-> Recipient(op, e), amount |-> Esc(e).amount])]
    /\ UNCHANGED <<orderToEscrow, inflight>>

\* What releaseEscrow / refundEscrow answers: the first failing require, the
\* require(success) after the transfer included.
PayoutResult(op, e, sender) ==
    IF ResultOf(op, e, sender) # "OK" THEN ResultOf(op, e, sender)
    ELSE IF ~TransferCompletes(op, e) THEN "TransferFailed"
    ELSE "OK"

ReleaseEscrow(e, sender) ==
    /\ ReleaseResult(e, sender) = "OK"
    /\ PayoutEffect("release", e)
    /\ UNCHANGED <<ledgerVars, orderVars, now, poolVars>>

RefundEscrow(e, sender) ==
    /\ RefundResult(e, sender) = "OK"
    /\ PayoutEffect("refund", e)
    /\ UNCHANGED <<ledgerVars, orderVars, now, poolVars>>

\* releaseEscrow / refundEscrow up to the external call, when the recipient is a
\* contract that runs code before the call returns.
BeginTransfer(op, e, sender) ==
    /\ ResultOf(op, e, sender) = "OK"
    /\ TransferCompletes(op, e)
    /\ escrows' = WriteOf(op, e)
    /\ inflight' = [op |-> op, escrowId |-> e, to |-> Recipient(op, e),
                    amount |-> Esc(e).amount, saved |-> escrows]
    /\ UNCHANGED <<orderToEscrow, vaultBalance, transfers>>
    /\ UNCHANGED <<ledgerVars, orderVars, now, poolVars>>

InitiateDisputeEffect(e) ==
    escrows' = [escrows EXCEPT ![e].disputed = TRUE, ![e].state = "Disputed"]

InitiateDispute(e, sender) ==
    /\ ~Entered
    /\ InitiateDisputeCheck(e, sender) = "OK"
    /\ InitiateDisputeEffect(e)
    /\ UNCHANGED <<orderToEscrow, vaultBalance, transfers, inflight>>
    /\ UNCHANGED <<ledgerVars, orderVars, now, poolVars>>

\* The recipient of the executing transfer calls initiateDispute, the one
\* mutating function of the vault without the nonReentrant modifier.
CallbackInitiateDispute(e) ==
    /\ Entered
    /\ InitiateDisputeCheck(e, inflight.to) = "OK"
    /\ InitiateDisputeEffect(e)
    /\ UNCHANGED <<orderToEscrow, vaultBalance, transfers, inflight>>
    /\ UNCHANGED <<ledgerVars, orderVars, now, poolVars>>

\* The external call returns: with success the function completes, otherwise
\* require(success) reverts the whole transaction.
TransferReturnKeepsWrite(success) ==
    /\ Entered
    /\ IF success
       THEN /\ vaultBalance' = vaultBalance - inflight.amount
            /\ transfers' = [transfers EXCEPT
                  ![inflight.escrowId] =
                      Append(@, [to |-> inflight.to, amount |-> inflight.amount])]
            /\ UNCHANGED escrows
       ELSE UNCHANGED <<escrows, vaultBalance, transfers>>
    /\ inflight' = NoTransfer
    /\ UNCHANGED orderToEscrow
    /\ UNCHANGED <<ledgerVars, orderVars, now, poolVars>>
TransferReturn(success) ==
    /\ Entered
    /\ IF success
       THEN /\ vaultBalance' = vaultBalance - inflight.amount
            /\ transfers' = [transfers EXCEPT
                  ![inflight.escrowId] =
                      Append(@, [to |-> inflight.to, amount |-> inflight.amount])]
            /\ UNCHANGED escrows
       ELSE /\ escrows' = inflight.saved
            /\ UNCHANGED <<vaultBalance, transfers>>
    /\ inflight' = NoTransfer
    /\ UNCHANGED orderToEscrow
    /\ UNCHANGED <<ledgerVars, orderVars, now, poolVars>>

Tick ==
    /\ ~Entered
    /\ now + ClockStep <= MaxTime
    /\ now' = now + ClockStep
    /\ UNCHANGED <<ledgerVars, orderVars, vaultVars, poolVars>>

\* ======================================================= ListingRegistry

CreateListingCheck(l, sender, price, stock) ==
    IF l = "" THEN "InvalidInput"
    ELSE IF listings[l].listingId # "" THEN "AlreadyExists"
    ELSE IF ~(price > 0) THEN "InvalidInput"
    ELSE IF ~(stock > 0) THEN "InvalidInput"
    ELSE "OK"

CreateListing(l, sender, price, stock) ==
    /\ ~Entered
    /\ CreateListingCheck(l, sender, price, stock) = "OK"
    /\ listings' = [listings EXCEPT ![l] =
          [listingId |-> l, seller |-> sender, price |-> price, stock |-> stock,
           active |-> TRUE]]
    /\ stockLog' = [stockLog EXCEPT ![l] = [initial |-> stock, decremented |-> 0]]
    /\ UNCHANGED <<orderVars, vaultVars, now, poolVars>>

UpdateListingCheck(l, sender) ==
    IF listings[l].listingId = "" THEN "NotFound"
    ELSE IF listings[l].seller # sender THEN "Unauthorized"
    ELSE "OK"

UpdateListing(l, sender, price, stock, active) ==
    /\ ~Entered
    /\ UpdateListingCheck(l, sender) = "OK"
    /\ listings' = [listings EXCEPT ![l].price = price, ![l].stock = stock,
                                    ![l].active = active]
    /\ UNCHANGED <<stockLog, orderVars, vaultVars, now, poolVars>>

\* decrementStock's requires; the variant leaves out the stock comparison.
DecrementStockUnchecked(l, quantity) ==
    IF listings[l].listingId = "" THEN "NotFound"
    ELSE IF ~listings[l].active THEN "Inactive"
    ELSE "OK"
DecrementStockCheckIgnoresActive(l, quantity) ==
    IF listings[l].listingId = "" THEN "NotFound"
    ELSE IF ~(listings[l].stock >= quantity) THEN "InsufficientStock"
    ELSE "OK"
DecrementStockCheck(l, quantity) ==
    IF listings[l].listingId = "" THEN "NotFound"
    ELSE IF ~listings[l].active THEN "Inactive"
    ELSE IF ~(listings[l].stock >= quantity) THEN "InsufficientStock"
    ELSE "OK"

\* The registry's part of a successful decrementStock.
DecrementStockEffect(l, quantity) ==
    /\ listings' = [listings EXCEPT ![l].stock = @ - quantity]
    /\ stockLog' = [stockLog EXCEPT ![l].decremented = @ + quantity]

\* decrementStock is external and has no restriction on its caller.
DecrementStock(l, quantity, sender) ==
    /\ ~Entered
    /\ DecrementStockCheck(l, quantity) = "OK"
    /\ DecrementStockEffect(l, quantity)
    /\ UNCHANGED <<orderVars, vaultVars, now, poolVars>>

\* ========================================================== OrderManager

OrderStatuses ==
    {"Pending", "Paid", "Shipped", "Delivered", "Cancelled", "Disputed", "Refunded"}

\* createOrder's requires, ending with those of the nested decrementStock; the
\* variant leaves out both stock comparisons.
CreateOrderCheckNoStock(o, l, quantity, sender) ==
    IF o = "" THEN "InvalidInput"
    ELSE IF orders[o].orderId # "" THEN "AlreadyExists"
    ELSE IF ~(quantity > 0) THEN "InvalidInput"
    ELSE IF listings[l].listingId = "" THEN "NotFound"
    ELSE IF ~listings[l].active THEN "Inactive"
    ELSE "OK"
CreateOrderCheck(o, l, quantity, sender) ==
    IF o = "" THEN "InvalidInput"
    ELSE IF orders[o].orderId # "" THEN "AlreadyExists"
    ELSE IF ~(quantity > 0) THEN "InvalidInput"
    ELSE IF listings[l].listingId = "" THEN "NotFound"
    ELSE IF ~listings[l].active THEN "Inactive"
    ELSE IF ~(listings[l].stock >= quantity) THEN "InsufficientStock"
    ELSE DecrementStockCheck(l, quantity)

CreateOrderEffect(o, l, quantity, sender) ==
    /\ DecrementStockEffect(l, quantity)
    /\ orders' = [orders EXCEPT ![o] =
          [orderId |-> o, listingId |-> l, buyer |-> sender,
           seller |-> listings[l].seller, quantity |-> quantity,
           totalAmount |-> listings[l].price * quantity, status |-> "Pending",
           escrowId |-> NoEscrow]]

CreateOrder(o, l, quantity, sender) ==
    /\ ~Entered
    /\ CreateOrderCheck(o, l, quantity, sender) = "OK"
    /\ CreateOrderEffect(o, l, quantity, sender)
    /\ UNCHANGED <<vaultVars, now, poolVars>>

\* payOrder's requires, ending with those of the nested createEscrow.  One
\* variant leaves out the comparison with totalAmount, the other does not let
\* a failure of createEscrow fail payOrder.
PayOrderCheckCurrentPrice(o, sender, value) ==
    IF orders[o].orderId = "" THEN "NotFound"
    ELSE IF orders[o].buyer # sender THEN "Unauthorized"
    ELSE IF orders[o].status # "Pending" THEN "WrongState"
    ELSE IF value # listings[orders[o].listingId].price * orders[o].quantity
         THEN "IncorrectAmount"
    ELSE CreateEscrowResult(o, orders[o].seller, OM, value)
PayOrderCheckAnyAmount(o, sender, value) ==
    IF orders[o].orderId = "" THEN "NotFound"
    ELSE IF orders[o].buyer # sender THEN "Unauthorized"
    ELSE IF orders[o].status # "Pending" THEN "WrongState"
    ELSE CreateEscrowResult(o, orders[o].seller, OM, value)
PayOrderCheckIgnoresVault(o, sender, value) ==
    IF orders[o].orderId = "" THEN "NotFound"
    ELSE IF orders[o].buyer # sender THEN "Unauthorized"
    ELSE IF orders[o].status # "Pending" THEN "WrongState"
    ELSE IF value # orders[o].totalAmount THEN "IncorrectAmount"
    ELSE "OK"
PayOrderCheck(o, sender, value) ==
    IF orders[o].orderId = "" THEN "NotFound"
    ELSE IF orders[o].buyer # sender THEN "Unauthorized"
    ELSE IF orders[o].status # "Pending" THEN "WrongState"
    ELSE IF value # orders[o].totalAmount THEN "IncorrectAmount"
    ELSE CreateEscrowResult(o, orders[o].seller, OM, value)

PayOrder(o, sender, value) ==
    /\ PayOrderCheck(o, sender, value) = "OK"
    /\ CreateEscrowEffect(o, orders[o].seller, OM, value)
    /\ orders' = [orders EXCEPT ![o].escrowId = EscrowIdOf(o, OM, now),
                                ![o].status = "Paid"]
    /\ UNCHANGED <<ledgerVars, now, poolVars>>

\* updateOrderStatus's requires; the variant lets every authorized caller
\* mark an order as shipped.
UpdateOrderStatusCheckAnyShipper(o, newStatus, sender) ==
    IF orders[o].orderId = "" THEN "NotFound"
    ELSE IF ~(sender = orders[o].buyer \/ sender = orders[o].seller \/ sender = Owner)
         THEN "Unauthorized"
    ELSE IF newStatus = "Shipped"
         THEN (IF orders[o].status # "Paid" THEN "WrongState" ELSE "OK")
    ELSE IF newStatus = "Delivered"
         THEN (IF orders[o].status # "Shipped" THEN "WrongState" ELSE "OK")
    ELSE IF newStatus = "Cancelled"
         THEN (IF orders[o].status \notin {"Pending", "Paid"} THEN "WrongState" ELSE "OK")
    ELSE "OK"
UpdateOrderStatusCheck(o, newStatus, sender) ==
    IF orders[o].orderId = "" THEN "NotFound"
    ELSE IF ~(sender = orders[o].buyer \/ sender = orders[o].seller \/ sender = Owner)
         THEN "Unauthorized"
    ELSE IF newStatus = "Shipped"
         THEN (IF orders[o].status # "Paid" THEN "WrongState"
               ELSE IF sender # orders[o].seller THEN "Unauthorized"
               ELSE "OK")
    ELSE IF newStatus = "Delivered"
         THEN (IF orders[o].status # "Shipped" THEN "WrongState" ELSE "OK")
    ELSE IF newStatus = "Cancelled"
         THEN (IF orders[o].status \notin {"Pending", "Paid"} THEN "WrongState" ELSE "OK")
    ELSE "OK"

UpdateOrderStatus(o, newStatus, sender) ==
    /\ ~Entered
    /\ UpdateOrderStatusCheck(o, newStatus, sender) = "OK"
    /\ orders' = [orders EXCEPT ![o].status = newStatus]
    /\ UNCHANGED <<ledgerVars, vaultVars, now, poolVars>>

\* confirmDeliveryAndRelease's requires and the outcome of its call of
\* releaseEscrow; the variant does not look at the vault.
ConfirmDeliveryCheckIgnoresVault(o, sender) ==
    IF orders[o].orderId = "" THEN "NotFound"
    ELSE IF sender # orders[o].buyer THEN "Unauthorized"
    ELSE IF orders[o].status # "Shipped" THEN "WrongState"
    ELSE IF orders[o].escrowId = NoEscrow THEN "NotFound"
    ELSE "OK"
ConfirmDeliveryCheck(o, sender) ==
    IF orders[o].orderId = "" THEN "NotFound"
    ELSE IF sender # orders[o].buyer THEN "Unauthorized"
    ELSE IF orders[o].status # "Shipped" THEN "WrongState"
    ELSE IF orders[o].escrowId = NoEscrow THEN "NotFound"
    ELSE IF ReleaseResult(orders[o].escrowId, OM) # "OK"
         THEN ReleaseResult(orders[o].escrowId, OM)
    ELSE IF ~TransferCompletes("release", orders[o].escrowId) THEN "TransferFailed"
    ELSE "OK"

ConfirmDeliveryAndRelease(o, sender) ==
    /\ ConfirmDeliveryCheck(o, sender) = "OK"
    /\ orders' = [orders EXCEPT ![o].status = "Delivered"]
    /\ PayoutEffect("release", orders[o].escrowId)
    /\ UNCHANGED <<ledgerVars, now, poolVars>>

\* The steps that emit OrderDelivered: updateOrderStatus with the target
\* Delivered and confirmDeliveryAndRelease, both of which require the status
\* Shipped and write Delivered.
EmitsOrderDelivered(o) ==
    /\ orders[o].orderId # ""
    /\ orders[o].status = "Shipped"
    /\ orders'[o].status = "Delivered"

\* Whether cancelOrderAndRefund takes the branch that calls the vault.
CancelRefunds(o) == orders[o].status = "Paid" /\ orders[o].escrowId # NoEscrow

CancelOrderCheck(o, sender) ==
    IF orders[o].orderId = "" THEN "NotFound"
    ELSE IF ~(sender = orders[o].buyer \/ sender = orders[o].seller \/ sender = Owner)
         THEN "Unauthorized"
    ELSE IF orders[o].status \notin {"Pending", "Paid"} THEN "WrongState"
    ELSE IF ~CancelRefunds(o) THEN "OK"
    ELSE IF RefundResult(orders[o].escrowId, OM) # "OK"
         THEN RefundResult(orders[o].escrowId, OM)
    ELSE IF ~TransferCompletes("refund", orders[o].escrowId) THEN "TransferFailed"
    ELSE "OK"

\* cancelOrderAndRefund; the variant gives the units of a cancelled unpaid
\* order back to the listing.
CancelOrderAndRefundRestock(o, sender) ==
    /\ ~Entered
    /\ CancelOrderCheck(o, sender) = "OK"
    /\ IF CancelRefunds(o)
       THEN /\ PayoutEffect("refund", orders[o].escrowId)
            /\ orders' = [orders EXCEPT ![o].status = "Refunded"]
            /\ UNCHANGED listings
       ELSE /\ orders' = [orders EXCEPT ![o].status = "Cancelled"]
            /\ listings' = [listings EXCEPT ![orders[o].listingId].stock = @ + orders[o].quantity]
            /\ UNCHANGED vaultVars
    /\ UNCHANGED <<stockLog, now, poolVars>>
CancelOrderAndRefund(o, sender) ==
    /\ ~Entered
    /\ CancelOrderCheck(o, sender) = "OK"
    /\ IF CancelRefunds(o)
       THEN /\ PayoutEffect("refund", orders[o].escrowId)
            /\ orders' = [orders EXCEPT ![o].status = "Refunded"]
       ELSE /\ orders' = [orders EXCEPT ![o].status = "Cancelled"]
            /\ UNCHANGED vaultVars
    /\ UNCHANGED <<ledgerVars, now, poolVars>>

\* ============================================ createOrder as a transaction
\* The order service submits createOrder and waits for its receipt; submitted
\* transactions are committed one at a time, in any order.

SubmitCreateOrder(o, l, quantity, sender) ==
    /\ \A t \in pending : t.orderId # o
    /\ \A i \in 1..Len(receipts) : receipts[i].orderId # o
    /\ pending' = pending \cup
          {[orderId |-> o, listingId |-> l, quantity |-> quantity, sender |-> sender]}
    /\ UNCHANGED <<ledgerVars, orderVars, vaultVars, now, receipts, indexVars>>

CommitCreateOrder(t) ==
    LET result == CreateOrderCheck(t.orderId, t.listingId, t.quantity, t.sender) IN
    /\ t \in pending
    /\ pending' = pending \ {t}
    /\ receipts' = Append(receipts,
          [orderId |-> t.orderId, listingId |-> t.listingId, quantity |-> t.quantity,
           stockBefore |-> listings[t.listingId].stock, result |-> result])
    /\ IF result = "OK"
       THEN CreateOrderEffect(t.orderId, t.listingId, t.quantity, t.sender)
       ELSE UNCHANGED <<ledgerVars, orderVars>>
    /\ UNCHANGED <<vaultVars, now, indexVars>>

\* ======================================================= escrow indexer
\* payment-service/src/services/indexer.js: one asynchronous handler per event
\* of the Escrow contract.  Every handler first awaits provider.getBlock and
\* then writes with EscrowModel.findOneAndUpdate; the listeners are called in
\* the order of the events, the awaited steps complete in any order.

\* The events the vault has emitted for an escrow, read off its committed
\* record: EscrowCreated when it exists, then the event of its state.
EmittedEvents(e) ==
    IF e \notin DOMAIN CommittedEscrows THEN {}
    ELSE {"EscrowCreated"} \cup
         (CASE CommittedEscrows[e].state = "Released" -> {"EscrowReleased"}
            [] CommittedEscrows[e].state = "Refunded" -> {"EscrowRefunded"}
            [] CommittedEscrows[e].state = "Disputed" -> {"DisputeInitiated"}
            [] OTHER -> {})

\* getEscrowState of the services: the name a state carries in the documents.
IndexedName(state) ==
    CASE state = "Locked" -> "locked"
      [] state = "Released" -> "released"
      [] state = "Refunded" -> "refunded"
      [] state = "Disputed" -> "disputed"

\* The listener is called: the handler runs up to its await of getBlock.
StartHandler(e, event) ==
    /\ event \in EmittedEvents(e)
    /\ <<e, event>> \notin DOMAIN handlers
    /\ event # "EscrowCreated" => <<e, "EscrowCreated">> \in DOMAIN handlers
    /\ handlers' = [h \in DOMAIN handlers \cup {<<e, event>>} |->
                       IF h = <<e, event>> THEN "fetching" ELSE handlers[h]]
    /\ UNCHANGED <<ledgerVars, orderVars, vaultVars, now, pending, receipts, indexed>>

\* findOneAndUpdate of the handlers: EscrowCreated upserts the document with
\* state 'locked', the other handlers update the document if there is one.
IndexedWrite(e, event) ==
    IF event = "EscrowCreated"
    THEN [d \in DOMAIN indexed \cup {e} |->
             IF d = e THEN [state |-> "locked", disputed |-> FALSE] ELSE indexed[d]]
    ELSE IF e \notin DOMAIN indexed THEN indexed
    ELSE CASE event = "EscrowReleased" -> [indexed EXCEPT ![e].state = "released"]
           [] event = "EscrowRefunded" -> [indexed EXCEPT ![e].state = "refunded"]
           [] OTHER -> [indexed EXCEPT ![e].state = "disputed", ![e].disputed = TRUE]

\* getBlock has answered: the handler writes and runs to its end (the reads
\* and the webhook after the write do not change the document).
FinishHandler(e, event) ==
    /\ <<e, event>> \in DOMAIN handlers
    /\ handlers[<<e, event>>] = "fetching"
    /\ indexed' = IndexedWrite(e, event)
    /\ handlers' = [handlers EXCEPT ![<<e, event>>] = "done"]
    /\ UNCHANGED <<ledgerVars, orderVars, vaultVars, now, pending, receipts>>

\* ================================================================== Init

ZeroListing ==
    [listingId |-> "", seller |-> ZeroAddr, price |-> 0, stock |-> 0, active |-> FALSE]

ZeroOrder ==
    [orderId |-> "", listingId |-> "", buyer |-> ZeroAddr, seller |-> ZeroAddr,
     quantity |-> 0, totalAmount |-> 0, status |-> "Pending", escrowId |-> NoEscrow]

Init ==
    /\ listings = [l \in ListingIds |-> ZeroListing]
    /\ stockLog = [l \in ListingIds |-> [initial |-> 0, decremented |-> 0]]
    /\ orders = [o \in OrderIds |-> ZeroOrder]
    /\ escrows = <<>>
    /\ orderToEscrow = [o \in OrderIds |-> NoEscrow]
    /\ vaultBalance = 0
    /\ transfers = <<>>
    /\ inflight = NoTransfer
    /\ now = 0
    /\ pending = {}
    /\ receipts = <<>>
    /\ handlers = <<>>
    /\ indexed = <<>>

\* ------------------------------------------------------- the parties
Sellers == {"seller"}
Buyers == {"buyer", "other"}
VaultPayers == {"buyer", OM}
VaultPayees == {"seller"}

\* ----------------------------------------------- the vault under any callers
NextVault ==
    \/ \E o \in OrderIds, p \in VaultPayees, s \in VaultPayers, v \in 1..MaxAmount :
          CreateEscrow(o, p, s, v)
    \/ \E e \in DOMAIN escrows, s \in Callers : ReleaseEscrow(e, s)
    \/ \E e \in DOMAIN escrows, s \in Callers : RefundEscrow(e, s)
    \/ \E e \in DOMAIN escrows, s \in Callers : BeginTransfer("release", e, s)
    \/ \E e \in DOMAIN escrows, s \in Callers : BeginTransfer("refund", e, s)
    \/ \E e \in DOMAIN escrows, s \in Callers : InitiateDispute(e, s)
    \/ \E e \in DOMAIN escrows : CallbackInitiateDispute(e)
    \/ \E b \in BOOLEAN : TransferReturn(b)
    \/ Tick

SpecVault == Init /\ [][NextVault]_vars

\* ------------------------- the registry under createListing and decrements
NextStock ==
    \/ \E l \in ListingIds, s \in Users, p \in 1..MaxPrice, k \in 1..MaxStock :
          CreateListing(l, s, p, k)
    \/ \E l \in ListingIds, q \in 0..MaxQty, s \in Callers : DecrementStock(l, q, s)
    \/ \E o \in OrderIds, l \in ListingIds, q \in 1..MaxQty, s \in Buyers :
          CreateOrder(o, l, q, s)

SpecStock == Init /\ [][NextStock]_vars

\* ------------------------------------- concurrent createOrder transactions
NextRace ==
    \/ \E l \in ListingIds, s \in Sellers, p \in 1..MaxPrice, k \in 1..MaxStock :
          CreateListing(l, s, p, k)
    \/ \E o \in OrderIds, l \in ListingIds, q \in 1..MaxQty, s \in Users :
          SubmitCreateOrder(o, l, q, s)
    \/ \E t \in pending : CommitCreateOrder(t)

SpecRace == Init /\ [][NextRace]_vars

\* ------------------------------------------------ the three contracts
\* One order on one listing, with the vault open to direct calls.
CoreOrders == {"o1"}
DirectPayers == {"other"}

Next ==
    \/ \E l \in ListingIds, s \in Sellers, p \in 1..MaxPrice, k \in 1..MaxStock :
          CreateListing(l, s, p, k)
    \/ \E o \in CoreOrders, l \in ListingIds, q \in 1..MaxQty, s \in {"buyer"} :
          CreateOrder(o, l, q, s)
    \/ \E o \in CoreOrders, s \in Users, v \in 0..(MaxPrice * MaxQty) : PayOrder(o, s, v)
    \/ \E o \in CoreOrders, st \in OrderStatuses, s \in Users : UpdateOrderStatus(o, st, s)
    \/ \E o \in CoreOrders, s \in Users : ConfirmDeliveryAndRelease(o, s)
    \/ \E o \in CoreOrders, s \in Users : CancelOrderAndRefund(o, s)
    \/ \E o \in OrderIds, p \in VaultPayees, s \in DirectPayers, v \in 1..MaxAmount :
          CreateEscrow(o, p, s, v)
    \/ \E e \in DOMAIN escrows, s \in Users : ReleaseEscrow(e, s)
    \/ \E e \in DOMAIN escrows, s \in Users : RefundEscrow(e, s)
    \/ \E e \in DOMAIN escrows, s \in Users : InitiateDispute(e, s)
    \/ Tick

Spec == Init /\ [][Next]_vars

\* ------------------------------------- the listing under its seller's updates
\* One listing that its seller reprices, restocks and switches off and on,
\* that anybody may call decrementStock on, and one order placed and paid on it.
MaxDecrements == 3

NextListing ==
    \/ \E l \in ListingIds, s \in Sellers, p \in 1..MaxPrice, k \in 1..MaxStock :
          CreateListing(l, s, p, k)
    \/ \E l \in ListingIds, s \in Users, p \in 0..MaxPrice, k \in 0..MaxStock, a \in BOOLEAN :
          UpdateListing(l, s, p, k, a)
    \/ \E l \in ListingIds, q \in 1..MaxQty, s \in Callers :
          /\ stockLog[l].decremented < MaxDecrements
          /\ DecrementStock(l, q, s)
    \/ \E o \in CoreOrders, l \in ListingIds, q \in 1..MaxQty, s \in {"buyer"} :
          CreateOrder(o, l, q, s)
    \/ \E o \in CoreOrders, s \in Users, v \in 0..(MaxPrice * MaxQty) : PayOrder(o, s, v)

SpecListing == Init /\ [][NextListing]_vars

\* ------------------------------------------- the vault and its indexer
EscrowEvents == {"EscrowCreated", "EscrowReleased", "EscrowRefunded", "DisputeInitiated"}

NextIndexer ==
    \/ \E o \in OrderIds, p \in VaultPayees, s \in VaultPayers, v \in 1..MaxAmount :
          CreateEscrow(o, p, s, v)
    \/ \E e \in DOMAIN escrows, s \in Callers : ReleaseEscrow(e, s)
    \/ \E e \in DOMAIN escrows, s \in Callers : RefundEscrow(e, s)
    \/ \E e \in DOMAIN escrows, s \in Callers : InitiateDispute(e, s)
    \/ \E e \in DOMAIN escrows, k \in EscrowEvents : StartHandler(e, k)
    \/ \E e \in DOMAIN escrows, k \in EscrowEvents : FinishHandler(e, k)

SpecIndexer == Init /\ [][NextIndexer]_vars

\* ------------------------------------------ the purchase from order to payout
\* One listing of RoundTripStock units at RoundTripPrice; buyers order up to
\* RoundTripQty units, pay, the order is shipped and the delivery confirmed.
RoundTripStock == 10
RoundTripPrice == 100
RoundTripQty == 2

NextRoundTrip ==
    \/ \E l \in ListingIds, s \in Sellers : CreateListing(l, s, RoundTripPrice, RoundTripStock)
    \/ \E o \in OrderIds, l \in ListingIds, q \in 1..RoundTripQty, s \in Buyers :
          CreateOrder(o, l, q, s)
    \/ \E o \in OrderIds, s \in Users, q \in 0..RoundTripQty :
          PayOrder(o, s, RoundTripPrice * q)
    \/ \E o \in OrderIds, s \in Users : UpdateOrderStatus(o, "Shipped", s)
    \/ \E o \in OrderIds, s \in Users : ConfirmDeliveryAndRelease(o, s)
    \/ Tick

SpecRoundTrip == Init /\ [][NextRoundTrip]_vars

\* ================================================================ claims

\* C1: exactly-once payout.  For every escrow at most one transfer out of the
\* vault ever completes; it moves the escrow's whole amount; and from then on
\* releaseEscrow and refundEscrow answer WrongState to every caller, at every
\* clock value.
C1_ExactlyOncePayout ==
    \A e \in DOMAIN escrows :
        /\ Len(transfers[e]) <= 1
        /\ Len(transfers[e]) = 1 =>
              /\ transfers[e][1].amount = escrows[e].amount
              /\ \A s \in Callers :
                    /\ ReleaseCheck(e, s) = "WrongState"
                    /\ RefundCheck(e, s) = "WrongState"

\* An escrow was paid out and its deadline has passed, so that only its state
\* stands between any caller and a second release.
C1_Witness ==
    \E e \in DOMAIN escrows :
        /\ Len(transfers[e]) = 1
        /\ escrows[e].state = "Released"
        /\ now >= escrows[e].releaseTime

\* C2: reentrancy discipline.  While the transfer of a release (refund) is
\* executing, the escrow already is Released (Refunded); releaseEscrow,
\* refundEscrow and initiateDispute on it fail for every caller, by the state
\* check alone and so also for initiateDispute, which has no reentrancy guard;
\* and no escrow is ever paid out twice.
C2_ReentrancyDiscipline ==
    /\ Entered =>
          LET e == inflight.escrowId IN
          /\ escrows[e].state = (IF inflight.op = "release" THEN "Released" ELSE "Refunded")
          /\ transfers[e] = <<>>
          /\ \A s \in Callers :
                /\ ReleaseCheck(e, s) = "WrongState"
                /\ RefundCheck(e, s) = "WrongState"
                /\ InitiateDisputeCheck(e, s) = "WrongState"
                /\ ReleaseResult(e, s) # "OK"
                /\ RefundResult(e, s) # "OK"
    /\ \A e \in DOMAIN escrows : Len(transfers[e]) <= 1

\* A release is at its transfer and the recipient has called back into the
\* vault: its initiateDispute on another escrow went through.
C2_Witness ==
    /\ Entered
    /\ inflight.op = "release"
    /\ \E e \in DOMAIN escrows :
          /\ e # inflight.escrowId
          /\ escrows[e].state = "Disputed"
          /\ inflight.saved[e].state = "Locked"

\* C3: stock conservation.  Under createListing and decrements (direct or by
\* createOrder) the stock of a listing is never negative and equals the stock
\* at creation minus the units successfully decremented; and the stock only
\* changes by creation or by a decrement that passes decrementStock's checks.
C3_StockInvariant ==
    \A l \in ListingIds :
        listings[l].listingId # "" =>
            /\ listings[l].stock >= 0
            /\ listings[l].stock = stockLog[l].initial - stockLog[l].decremented

C3_StockStep ==
    \A l \in ListingIds :
        (listings[l].listingId # "" /\ listings'[l].stock # listings[l].stock) =>
            \E q \in 1..MaxQty :
                /\ DecrementStockCheck(l, q) = "OK"
                /\ listings'[l].stock = listings[l].stock - q

C3_StockConservation == []C3_StockInvariant /\ [][C3_StockStep]_vars

\* Units were decremented, the stock is exhausted and a further decrement fails.
C3_Witness ==
    \E l \in ListingIds :
        /\ stockLog[l].decremented > 0
        /\ listings[l].stock = 0
        /\ DecrementStockCheck(l, 1) = "InsufficientStock"

\* C4: last-unit race.  When two createOrder transactions with quantity 1 and
\* distinct order ids are committed one after the other against a listing whose
\* stock is 1, the first succeeds and the second fails with InsufficientStock;
\* right after, the stock is 0, only the first has an order record, and a
\* listing created with stock 1 has exactly one order record.
RaceOrdersOf(l) == {o \in OrderIds : orders[o].orderId # "" /\ orders[o].listingId = l}

C4_LastUnitRace ==
    \A i \in 1..(Len(receipts) - 1) :
        LET a == receipts[i]
            b == receipts[i + 1]
        IN  (/\ a.listingId = b.listingId
             /\ a.orderId # b.orderId
             /\ a.quantity = 1
             /\ b.quantity = 1
             /\ a.stockBefore = 1) =>
                /\ a.result = "OK"
                /\ b.result = "InsufficientStock"
                /\ (i + 1 = Len(receipts)) =>
                      /\ listings[a.listingId].stock = 0
                      /\ orders[a.orderId].orderId = a.orderId
                      /\ orders[b.orderId].orderId = ""
                      /\ (stockLog[a.listingId].initial = 1 =>
                             Cardinality(RaceOrdersOf(a.listingId)) = 1)

\* Both transactions were pending together and the one for "o2" was committed
\* first: it took the last unit and the one for "o1" failed.
C4_Witness ==
    /\ Len(receipts) = 2
    /\ receipts[1].orderId = "o2"
    /\ receipts[1].stockBefore = 1
    /\ receipts[1].quantity = 1
    /\ receipts[2].quantity = 1
    /\ receipts[1].result = "OK"
    /\ receipts[2].result = "InsufficientStock"
    /\ stockLog[receipts[1].listingId].initial = 1

\* C5 as stated: once an order id has an escrow, every createEscrow for it fails
\* with AlreadyExists.
CreateEscrowInputs == (Callers \cup {ZeroAddr}) \X Callers \X (0..MaxAmount)

C5_AlwaysAlreadyExists ==
    \A o \in OrderIds :
        orderToEscrow[o] # NoEscrow =>
            \A in \in CreateEscrowInputs :
                CreateEscrowCheck(o, in[1], in[2], in[3]) = "AlreadyExists"

\* C5, amended: for every order id at most one escrow record exists; once an
\* escrow is registered for it, createEscrow fails whatever the escrow's state,
\* with InvalidInput when the amount is 0, the payee is the zero address or the
\* payee is the caller, and with AlreadyExists otherwise; the registered escrow
\* id and the escrow id linked to the order never change once set, and no
\* second record appears.
EscrowsOf(o) == {e \in DOMAIN escrows : escrows[e].orderId = o}

C5_UniqueInvariant ==
    \A o \in OrderIds :
        /\ Cardinality(EscrowsOf(o)) <= 1
        /\ orderToEscrow[o] # NoEscrow =>
              /\ EscrowsOf(o) = {orderToEscrow[o]}
              /\ \A in \in CreateEscrowInputs :
                    CreateEscrowCheck(o, in[1], in[2], in[3]) =
                        (IF in[3] > 0 /\ in[1] # ZeroAddr /\ in[1] # in[2]
                         THEN "AlreadyExists" ELSE "InvalidInput")
        /\ orders[o].escrowId # NoEscrow => orders[o].escrowId = orderToEscrow[o]

C5_UniqueStep ==
    \A o \in OrderIds :
        /\ orderToEscrow[o] # NoEscrow => orderToEscrow'[o] = orderToEscrow[o]
        /\ orders[o].escrowId # NoEscrow => orders'[o].escrowId = orders[o].escrowId

C5_EscrowUniqueness == []C5_UniqueInvariant /\ [][C5_UniqueStep]_vars

\* An order is linked to its escrow, the escrow has been released, and a new
\* createEscrow for the order id with the order's own arguments is refused.
C5_Witness ==
    \E o \in OrderIds :
        /\ orders[o].escrowId # NoEscrow
        /\ Esc(orders[o].escrowId).state = "Released"
        /\ CreateEscrowCheck(o, orders[o].seller, OM, orders[o].totalAmount) = "AlreadyExists"

\* C6: every order whose status is Paid has exactly one linked escrow: its
\* escrow id is set and the vault holds the record of that id for the order.
C6_PaidHasEscrow ==
    \A o \in OrderIds :
        (orders[o].orderId # "" /\ orders[o].status = "Paid") =>
            /\ orders[o].escrowId # NoEscrow
            /\ orders[o].escrowId \in DOMAIN escrows
            /\ Esc(orders[o].escrowId).orderId = o
            /\ orderToEscrow[o] = orders[o].escrowId

\* C7: dispute freeze, then forced refund.  For a Disputed escrow, release and
\* refund fail with WrongState while now < createdAt + DISPUTE_WINDOW, and once
\* now >= createdAt + DISPUTE_WINDOW a refund passes the vault's checks.
C7_DisputeFreezeThenRefund ==
    \A e \in DOMAIN escrows :
        escrows[e].state = "Disputed" =>
            IF now < escrows[e].createdAt + DISPUTE_WINDOW
            THEN \A s \in Callers :
                    /\ ReleaseCheck(e, s) = "WrongState"
                    /\ RefundCheck(e, s) = "WrongState"
            ELSE \E s \in Callers : RefundCheck(e, s) = "OK"

\* C8: cancelOrderAndRefund on a Paid order whose linked escrow is Locked
\* succeeds for the order's buyer, its seller and the admin.
C8_CancelRefundsPaid ==
    \A o \in OrderIds, s \in Users :
        (/\ orders[o].orderId # ""
         /\ s \in {orders[o].buyer, orders[o].seller, Owner}
         /\ orders[o].status = "Paid"
         /\ orders[o].escrowId # NoEscrow
         /\ Esc(orders[o].escrowId).state = "Locked") =>
            CancelOrderCheck(o, s) = "OK"

\* C9: an order becomes Delivered only by confirmDeliveryAndRelease, that is
\* from Shipped and in the step that pays its escrow out to the seller.
C9_DeliveredStep ==
    \A o \in OrderIds :
        (orders[o].status # "Delivered" /\ orders'[o].status = "Delivered") =>
            /\ orders[o].status = "Shipped"
            /\ orders[o].escrowId \in DOMAIN transfers
            /\ Len(transfers'[orders[o].escrowId]) = Len(transfers[orders[o].escrowId]) + 1

C9_DeliveredOnlyByConfirm == [][C9_DeliveredStep]_vars

\* C10: Delivered, Cancelled and Refunded are terminal, and the status of an
\* order only moves along Pending->Paid, Paid->Shipped, Shipped->Delivered and
\* Pending|Paid->Cancelled|Refunded.
StatusEdges ==
    {<<"Pending", "Paid">>, <<"Paid", "Shipped">>, <<"Shipped", "Delivered">>,
     <<"Pending", "Cancelled">>, <<"Paid", "Cancelled">>,
     <<"Pending", "Refunded">>, <<"Paid", "Refunded">>}

C10_StatusStep ==
    \A o \in OrderIds :
        orders[o].orderId # "" =>
            \/ orders'[o].status = orders[o].status
            \/ <<orders[o].status, orders'[o].status>> \in StatusEdges

C10_TerminalAndEdges == [][C10_StatusStep]_vars


\* C11: the escrow lifecycle is monotonic and terminal.  A committed escrow
\* state only moves Locked->Released, Locked->Refunded, Locked->Disputed or
\* Disputed->Released|Refunded; a Released or Refunded escrow keeps its state
\* and release, refund and initiateDispute on it are rejected for every caller;
\* amount, buyer, seller and order id of a record never change.
EscrowEdges ==
    {<<"Locked", "Released">>, <<"Locked", "Refunded">>, <<"Locked", "Disputed">>,
     <<"Disputed", "Released">>, <<"Disputed", "Refunded">>}

C11_TerminalRejects ==
    \A e \in DOMAIN escrows :
        escrows[e].state \in {"Released", "Refunded"} =>
            \A s \in Callers :
                /\ ReleaseCheck(e, s) # "OK"
                /\ RefundCheck(e, s) # "OK"
                /\ InitiateDisputeCheck(e, s) # "OK"

C11_LifecycleStep ==
    \A e \in DOMAIN CommittedEscrows :
        /\ e \in DOMAIN CommittedEscrows'
        /\ \/ CommittedEscrows'[e].state = CommittedEscrows[e].state
           \/ <<CommittedEscrows[e].state, CommittedEscrows'[e].state>> \in EscrowEdges
        /\ CommittedEscrows'[e].amount = CommittedEscrows[e].amount
        /\ CommittedEscrows'[e].buyer = CommittedEscrows[e].buyer
        /\ CommittedEscrows'[e].seller = CommittedEscrows[e].seller
        /\ CommittedEscrows'[e].orderId = CommittedEscrows[e].orderId
        /\ escrows'[e].amount = escrows[e].amount
        /\ escrows'[e].buyer = escrows[e].buyer
        /\ escrows'[e].seller = escrows[e].seller
        /\ escrows'[e].orderId = escrows[e].orderId

C11_EscrowLifecycle == []C11_TerminalRejects /\ [][C11_LifecycleStep]_vars

\* One escrow was refunded and paid out, another one is Disputed.
C11_Witness ==
    \E e1, e2 \in DOMAIN escrows :
        /\ escrows[e1].state = "Refunded"
        /\ Len(transfers[e1]) = 1
        /\ escrows[e2].state = "Disputed"

\* C12: amount equality.  payOrder by the buyer of a Pending order with a value
\* other than totalAmount, lower or higher, fails with IncorrectAmount; and an
\* escrow is only ever linked to an order in a step that holds exactly the
\* order's totalAmount in it.
PayValues == 0..(MaxPrice * MaxQty + 1)

C12_WrongAmountRejected ==
    \A o \in OrderIds, v \in PayValues :
        (/\ orders[o].orderId # ""
         /\ orders[o].status = "Pending"
         /\ v # orders[o].totalAmount) =>
            PayOrderCheck(o, orders[o].buyer, v) = "IncorrectAmount"

C12_LinkStep ==
    \A o \in OrderIds :
        orders'[o].escrowId # orders[o].escrowId =>
            /\ vaultBalance' = vaultBalance + orders[o].totalAmount
            /\ orders'[o].status = "Paid"

C12_AmountEquality == []C12_WrongAmountRejected /\ [][C12_LinkStep]_vars

\* A Pending order of total 2 that nobody has paid: 1 is too little, 3 too much.
C12_Witness ==
    \E o \in OrderIds :
        /\ orders[o].orderId # ""
        /\ orders[o].status = "Pending"
        /\ orders[o].totalAmount = 2
        /\ orders[o].escrowId = NoEscrow
        /\ PayOrderCheck(o, orders[o].buyer, 1) = "IncorrectAmount"
        /\ PayOrderCheck(o, orders[o].buyer, 3) = "IncorrectAmount"

\* C13: for every order with a linked escrow, the escrow's amount is the
\* order's totalAmount and the escrow's order id is the order's id.
C13_LinkedEscrowMatches ==
    \A o \in OrderIds :
        orders[o].escrowId # NoEscrow =>
            /\ orders[o].escrowId \in DOMAIN escrows
            /\ escrows[orders[o].escrowId].amount = orders[o].totalAmount
            /\ escrows[orders[o].escrowId].orderId = orders[o].orderId
            /\ orders[o].orderId = o

\* An order of total 2 is linked to its escrow and has been shipped.
C13_Witness ==
    \E o \in OrderIds :
        /\ orders[o].escrowId # NoEscrow
        /\ orders[o].totalAmount = 2
        /\ orders[o].status = "Shipped"

\* C14: createOrder is atomic across OrderManager and ListingRegistry: it
\* either takes its quantity from the stock and adds one Pending order, or
\* fails and changes nothing, so that no reachable state has a stock decrement
\* without a matching order or an order without its decrement: the units
\* decremented from a listing always are the sum of the quantities of the
\* orders placed on it.
RECURSIVE SumQuantity(_)
SumQuantity(os) ==
    IF os = {} THEN 0
    ELSE LET o == CHOOSE x \in os : TRUE
         IN  orders[o].quantity + SumQuantity(os \ {o})

C15_VaultFailureFailsPay ==
    \A o \in OrderIds, s \in Callers, v \in PayValues :
        (/\ orders[o].orderId # ""
         /\ CreateEscrowResult(o, orders[o].seller, OM, v) # "OK") =>
            PayOrderCheck(o, s, v) # "OK"

C15_PayStep ==
    /\ \A o \in OrderIds :
          orders'[o].escrowId # orders[o].escrowId =>
              /\ orders[o].status = "Pending" /\ orders[o].escrowId = NoEscrow
              /\ orderToEscrow[o] = NoEscrow
              /\ orderToEscrow'[o] = orders'[o].escrowId
              /\ orders'[o].escrowId \notin DOMAIN escrows
              /\ orders'[o].escrowId \in DOMAIN escrows'
              /\ escrows'[orders'[o].escrowId].buyer = OM
              /\ escrows'[orders'[o].escrowId].state = "Locked"
    /\ \A e \in DOMAIN escrows' \ DOMAIN escrows :
          /\ vaultBalance' = vaultBalance + escrows'[e].amount
          /\ escrows'[e].buyer = OM =>
                /\ orders[escrows'[e].orderId].status = "Pending"
                /\ orders'[escrows'[e].orderId].status = "Paid"
                /\ orders'[escrows'[e].orderId].escrowId = e
    /\ vaultBalance' > vaultBalance => DOMAIN escrows' # DOMAIN escrows

C15_PayOrderAtomic == []C15_VaultFailureFailsPay /\ [][C15_PayStep]_vars

\* Somebody else registered an escrow for the order id of a Pending order: the
\* buyer's payOrder with the right amount fails, and the order is not linked.
C15_Witness ==
    \E o \in OrderIds :
        /\ orders[o].orderId # ""
        /\ orders[o].status = "Pending"
        /\ orders[o].escrowId = NoEscrow
        /\ orderToEscrow[o] # NoEscrow
        /\ Esc(orderToEscrow[o]).buyer # OM
        /\ PayOrderCheck(o, orders[o].buyer, orders[o].totalAmount) = "AlreadyExists"

\* C16: confirmDeliveryAndRelease commits nothing on failure.  It succeeds only
\* for the order's buyer, on a Shipped order with a linked escrow that is
\* Locked, undisputed and whose transfer to the seller completes; in every
\* other case it fails, and a failing call is no step.  A step that makes a
\* Shipped order Delivered and touches the vault is a successful call: it
\* releases the linked escrow and pays its amount to the seller.
C16_ConfirmRequires ==
    \A o \in OrderIds, s \in Callers :
        ConfirmDeliveryCheck(o, s) = "OK" =>
            /\ s = orders[o].buyer
            /\ orders[o].status = "Shipped"
            /\ orders[o].escrowId # NoEscrow
            /\ Esc(orders[o].escrowId).state = "Locked"
            /\ ~Esc(orders[o].escrowId).disputed
            /\ TransferCompletes("release", orders[o].escrowId)

C16_ConfirmStep ==
    \A o \in OrderIds :
        (/\ orders[o].status = "Shipped"
         /\ orders'[o].status # "Shipped"
         /\ vaultVars' # vaultVars) =>
            LET e == orders[o].escrowId IN
            /\ ConfirmDeliveryCheck(o, orders[o].buyer) = "OK"
            /\ orders'[o] = [orders[o] EXCEPT !.status = "Delivered"]
            /\ escrows' = [escrows EXCEPT ![e].state = "Released"]
            /\ vaultBalance' = vaultBalance - escrows[e].amount
            /\ transfers' = [transfers EXCEPT
                  ![e] = Append(@, [to |-> escrows[e].seller, amount |-> escrows[e].amount])]

C16_ConfirmCommitsNothingOnFailure == []C16_ConfirmRequires /\ [][C16_ConfirmStep]_vars

\* The seller disputed the escrow of a Shipped order: the buyer's
\* confirmation fails in the vault, the order is Shipped and the escrow whole.
C16_Witness ==
    \E o \in OrderIds :
        /\ orders[o].status = "Shipped"
        /\ orders[o].escrowId # NoEscrow
        /\ Esc(orders[o].escrowId).state = "Disputed"
        /\ vaultBalance >= Esc(orders[o].escrowId).amount
        /\ transfers[orders[o].escrowId] = <<>>
        /\ ConfirmDeliveryCheck(o, orders[o].buyer) = "WrongState"

\* C17: the round trip.  From a listing with stock 10 and price 100, an order
\* of quantity q (2 in the scenario) leaves stock 10 - q and is Pending with
\* totalAmount 100 * q; paying exactly that gives a Locked escrow of that
\* amount and a Paid order; the seller marks it Shipped; the buyer's
\* confirmation gives escrow Released and order Delivered, one payment of
\* totalAmount to the seller, and the vault holds value only for the orders
\* still Paid or Shipped.  Statuses move only along Pending -> Paid -> Shipped
\* -> Delivered.
RECURSIVE SumTotal(_)
SumTotal(os) ==
    IF os = {} THEN 0
    ELSE LET o == CHOOSE x \in os : TRUE
         IN  orders[o].totalAmount + SumTotal(os \ {o})

HeldOrders == {o \in OrderIds : orders[o].orderId # "" /\ orders[o].status \in {"Paid", "Shipped"}}

C17_RoundTripInvariant ==
    /\ \A l \in ListingIds :
          listings[l].listingId # "" =>
              /\ listings[l].price = RoundTripPrice
              /\ listings[l].stock = RoundTripStock - SumQuantity(RaceOrdersOf(l))
    /\ vaultBalance = SumTotal(HeldOrders)
    /\ \A o \in OrderIds :
          orders[o].orderId # "" =>
              LET e == orders[o].escrowId IN
              /\ orders[o].totalAmount = RoundTripPrice * orders[o].quantity
              /\ orders[o].status \in {"Pending", "Paid", "Shipped", "Delivered"}
              /\ orders[o].status = "Pending" => e = NoEscrow /\ orderToEscrow[o] = NoEscrow
              /\ orders[o].status \in {"Paid", "Shipped"} =>
                    /\ Esc(e).state = "Locked"
                    /\ Esc(e).amount = orders[o].totalAmount
                    /\ transfers[e] = <<>>
              /\ orders[o].status = "Delivered" =>
                    /\ Esc(e).state = "Released"
                    /\ transfers[e] = <<[to |-> orders[o].seller, amount |-> orders[o].totalAmount]>>

C17_RoundTripStep ==
    \A o \in OrderIds :
        orders'[o] # orders[o] =>
            \/ /\ orders[o] = ZeroOrder
               /\ orders'[o].status = "Pending"
            \/ /\ orders[o].orderId # ""
               /\ <<orders[o].status, orders'[o].status>> \in
                     {<<"Pending", "Paid">>, <<"Paid", "Shipped">>, <<"Shipped", "Delivered">>}

C17_RoundTrip == []C17_RoundTripInvariant /\ [][C17_RoundTripStep]_vars

\* The scenario's end: the order of 2 units is Delivered, the stock is 8, the
\* escrow of 200 is Released, the seller received 200 once and the vault is empty.
C17_Witness ==
    \E o \in OrderIds :
        /\ orders[o].status = "Delivered"
        /\ orders[o].quantity = RoundTripQty
        /\ orders[o].totalAmount = RoundTripPrice * RoundTripQty
        /\ listings[orders[o].listingId].stock = RoundTripStock - RoundTripQty
        /\ Esc(orders[o].escrowId).state = "Released"
        /\ Esc(orders[o].escrowId).amount = RoundTripPrice * RoundTripQty
        /\ transfers[orders[o].escrowId] =
              <<[to |-> "seller", amount |-> RoundTripPrice * RoundTripQty]>>
        /\ vaultBalance = 0

\* C18: cancellation before payment.  The buyer of a Pending order can cancel
\* it; the step that takes a Pending order to Cancelled changes nothing but the
\* order's status: no escrow is created, the vault and its balance stay as they
\* were, and the listing keeps the stock left after the order's decrement.
C18_BuyerMayCancelPending ==
    \A o \in OrderIds :
        (orders[o].orderId # "" /\ orders[o].status = "Pending") =>
            CancelOrderCheck(o, orders[o].buyer) = "OK"

C18_CancelPendingStep ==
    \A o \in OrderIds :
        (/\ orders[o].orderId # ""
         /\ orders[o].status = "Pending"
         /\ orders'[o].status = "Cancelled") =>
            /\ orders' = [orders EXCEPT ![o].status = "Cancelled"]
            /\ vaultVars' = vaultVars
            /\ listings' = listings

C18_CancelBeforePayment == []C18_BuyerMayCancelPending /\ [][C18_CancelPendingStep]_vars

\* An unpaid order was cancelled: it has no escrow, the vault is empty and the
\* units the order took are still gone from the listing.
C18_Witness ==
    \E o \in OrderIds :
        /\ orders[o].status = "Cancelled"
        /\ orders[o].escrowId = NoEscrow
        /\ orderToEscrow[o] = NoEscrow
        /\ vaultBalance = 0
        /\ orders[o].quantity > 0
        /\ listings[orders[o].listingId].stock =
              stockLog[orders[o].listingId].initial - orders[o].quantity

\* C19: whenever a Paid order is cancelled, its linked escrow is refunded and
\* the order ends in Refunded: no order is Cancelled while its linked escrow
\* still holds the funds (Locked or Disputed).
C19_NoCancelledWithHeldEscrow ==
    \A o \in OrderIds :
        (orders[o].status = "Cancelled" /\ orders[o].escrowId # NoEscrow) =>
            Esc(orders[o].escrowId).state \notin {"Locked", "Disputed"}

\* C20: release authorization and auto-release.  On a Locked, undisputed
\* escrow releaseEscrow is accepted from the payer and from the administrator
\* at any time and from every caller once now >= releaseTime, which is the
\* creation time plus ESCROW_PERIOD; every other call, the payee's included,
\* is rejected as Unauthorized, and a rejected call is no step.
C20_ReleaseAuthorizedOrDue ==
    \A e \in DOMAIN escrows :
        /\ escrows[e].releaseTime = escrows[e].createdAt + ESCROW_PERIOD
        /\ (escrows[e].state = "Locked" /\ ~escrows[e].disputed) =>
              \A s \in Callers :
                  ReleaseCheck(e, s) =
                      (IF \/ s = escrows[e].buyer
                          \/ s = Owner
                          \/ now >= escrows[e].createdAt + ESCROW_PERIOD
                       THEN "OK" ELSE "Unauthorized")

\* Two Locked escrows: one past its deadline, which the payee may release, and
\* one created later, which the payee may not release yet but the payer may.
C20_Witness ==
    \E e1, e2 \in DOMAIN escrows :
        /\ escrows[e1].state = "Locked" /\ ~escrows[e1].disputed
        /\ escrows[e2].state = "Locked" /\ ~escrows[e2].disputed
        /\ now >= escrows[e1].releaseTime
        /\ now < escrows[e2].releaseTime
        /\ ReleaseCheck(e1, escrows[e1].seller) = "OK"
        /\ ReleaseCheck(e2, escrows[e2].seller) = "Unauthorized"
        /\ ReleaseCheck(e2, escrows[e2].buyer) = "OK"

\* C21: a listing's price, stock and active flag are changed only by its
\* recorded seller's updateListing or by the decrement inside createOrder.
\* updateListing is accepted from the seller alone (Unauthorized for everybody
\* else, NotFound for an unknown id), and every step that decrements the stock
\* of a listing records an order for the decremented quantity on it.
C21_UpdateBySellerOnly ==
    \A l \in ListingIds, s \in Callers :
        UpdateListingCheck(l, s) =
            (IF listings[l].listingId = "" THEN "NotFound"
             ELSE IF s = listings[l].seller THEN "OK" ELSE "Unauthorized")

C21_DecrementStep ==
    \A l \in ListingIds :
        stockLog'[l].decremented # stockLog[l].decremented =>
            \E o \in OrderIds :
                /\ orders[o] = ZeroOrder
                /\ orders'[o].listingId = l
                /\ orders'[o].quantity = listings[l].stock - listings'[l].stock
                /\ orders'[o].quantity = stockLog'[l].decremented - stockLog[l].decremented

C21_ListingChangedBySellerOrOrder == []C21_UpdateBySellerOnly /\ [][C21_DecrementStep]_vars

\* C22: an order's totalAmount, quantity, buyer, seller and listing id are
\* fixed at creation.  createOrder stores the listing's price at that moment
\* times the quantity; no later step, an updateListing that reprices, restocks
\* or deactivates the listing included, changes any of the five fields; and the
\* only value payOrder accepts is the stored totalAmount.
C22_PayDemandsStoredTotal ==
    \A o \in OrderIds, s \in Callers, v \in PayValues :
        PayOrderCheck(o, s, v) = "OK" => v = orders[o].totalAmount

C22_FixedStep ==
    \A o \in OrderIds :
        IF orders[o].orderId = ""
        THEN orders'[o].orderId # "" =>
                /\ orders'[o].totalAmount =
                      listings[orders'[o].listingId].price * orders'[o].quantity
                /\ orders'[o].seller = listings[orders'[o].listingId].seller
        ELSE /\ orders'[o].totalAmount = orders[o].totalAmount
             /\ orders'[o].quantity = orders[o].quantity
             /\ orders'[o].buyer = orders[o].buyer
             /\ orders'[o].seller = orders[o].seller
             /\ orders'[o].listingId = orders[o].listingId
             /\ orders'[o].orderId = orders[o].orderId

C22_OrderFixedAtCreation == []C22_PayDemandsStoredTotal /\ [][C22_FixedStep]_vars

\* The seller repriced the listing after the order was placed: the order still
\* carries the old total, and that is what payOrder accepts.
C22_Witness ==
    \E o \in OrderIds :
        /\ orders[o].orderId # ""
        /\ orders[o].status = "Pending"
        /\ orders[o].totalAmount # listings[orders[o].listingId].price * orders[o].quantity
        /\ PayOrderCheck(o, orders[o].buyer, orders[o].totalAmount) = "OK"
        /\ PayOrderCheck(o, orders[o].buyer,
                         listings[orders[o].listingId].price * orders[o].quantity) = "IncorrectAmount"

\* C23: a listing whose active flag is false accepts no new orders.  While it
\* is inactive, createOrder for a new order id and a positive quantity and
\* decrementStock both fail with Inactive whatever the remaining stock, and no
\* step creates an order on it or changes its stock other than its seller's
\* update; once it is active again, an order within the stock is accepted.
C23_InactiveRejects ==
    \A l \in ListingIds :
        listings[l].listingId # "" =>
            IF ~listings[l].active
            THEN /\ \A q \in 0..MaxQty : DecrementStockCheck(l, q) = "Inactive"
                 /\ \A o \in OrderIds, q \in 1..MaxQty, s \in Callers :
                       orders[o].orderId = "" => CreateOrderCheck(o, l, q, s) = "Inactive"
            ELSE \A o \in OrderIds, q \in 1..MaxQty, s \in Callers :
                    (orders[o].orderId = "" /\ q <= listings[l].stock) =>
                        CreateOrderCheck(o, l, q, s) = "OK"

C23_InactiveStep ==
    \A l \in ListingIds :
        (listings[l].listingId # "" /\ ~listings[l].active) =>
            /\ stockLog'[l] = stockLog[l]
            /\ \A o \in OrderIds :
                  (orders[o].orderId = "" /\ orders'[o].orderId # "") => orders'[o].listingId # l

C23_InactiveListingTakesNoOrders == []C23_InactiveRejects /\ [][C23_InactiveStep]_vars

\* The seller switched the listing off with units left, after units had been
\* taken from it while it was on: createOrder and decrementStock now fail.
C23_Witness ==
    \E l \in ListingIds, o \in OrderIds :
        /\ listings[l].listingId # ""
        /\ ~listings[l].active
        /\ listings[l].stock >= 1
        /\ stockLog[l].decremented >= 1
        /\ orders[o].orderId = ""
        /\ CreateOrderCheck(o, l, 1, "buyer") = "Inactive"
        /\ DecrementStockCheck(l, 1) = "Inactive"

\* C24: updateOrderStatus to Shipped succeeds only when the order's status is
\* Paid and the caller is the order's seller: the buyer, the administrator and
\* a stranger are rejected as Unauthorized, the seller on an order that is not
\* Paid is rejected with WrongState, and an order becomes Shipped only from Paid.
C24_ShippedRequires ==
    \A o \in OrderIds, s \in Callers :
        orders[o].orderId # "" =>
            UpdateOrderStatusCheck(o, "Shipped", s) =
                (IF s \notin {orders[o].buyer, orders[o].seller, Owner} THEN "Unauthorized"
                 ELSE IF orders[o].status # "Paid" THEN "WrongState"
                 ELSE IF s # orders[o].seller THEN "Unauthorized"
                 ELSE "OK")

C24_ShippedStep ==
    \A o \in OrderIds :
        (orders'[o].status = "Shipped" /\ orders[o].status # "Shipped") =>
            /\ orders[o].status = "Paid"
            /\ UpdateOrderStatusCheck(o, "Shipped", orders[o].seller) = "OK"
            /\ orders' = [orders EXCEPT ![o].status = "Shipped"]

C24_ShippedOnlyBySellerOnPaid == []C24_ShippedRequires /\ [][C24_ShippedStep]_vars

\* A Paid order: the seller may mark it shipped, the buyer, the administrator
\* and a stranger may not.
C24_Witness ==
    \E o \in OrderIds :
        /\ orders[o].status = "Paid"
        /\ orders[o].escrowId # NoEscrow
        /\ UpdateOrderStatusCheck(o, "Shipped", orders[o].seller) = "OK"
        /\ UpdateOrderStatusCheck(o, "Shipped", orders[o].buyer) = "Unauthorized"
        /\ UpdateOrderStatusCheck(o, "Shipped", Owner) = "Unauthorized"
        /\ UpdateOrderStatusCheck(o, "Shipped", "other") = "Unauthorized"

\* C25: timeout compensation.  Once the holding period of a Locked, undisputed
\* escrow has elapsed without a confirmation, the timeout path returns the
\* funds to the buyer and not to the seller: the call that any address may
\* then make is the refund, which pays the escrow's buyer, and not the release,
\* which pays its seller.
C25_TimeoutRefundsBuyer ==
    \A e \in DOMAIN escrows :
        (/\ escrows[e].state = "Locked"
         /\ ~escrows[e].disputed
         /\ now >= escrows[e].releaseTime) =>
            \A s \in Callers \ {escrows[e].buyer, escrows[e].seller, Owner} :
                /\ RefundCheck(e, s) = "OK"
                /\ ReleaseCheck(e, s) # "OK"

\* C26: vault value conservation.  The value the vault holds is the sum of the
\* amounts of the escrows that are Locked or Disputed (as committed: while a
\* payout's transfer is executing, as they were when the call began);
\* createEscrow raises it by exactly the new escrow's amount, a completed
\* release or refund lowers it by exactly the escrow's amount, and no other
\* step changes it.
RECURSIVE SumHeld(_)
SumHeld(es) ==
    IF es = {} THEN 0
    ELSE LET e == CHOOSE x \in es : TRUE
         IN  CommittedEscrows[e].amount + SumHeld(es \ {e})

HeldEscrows == {e \in DOMAIN CommittedEscrows : CommittedEscrows[e].state \in {"Locked", "Disputed"}}

C26_BalanceIsHeldSum == vaultBalance = SumHeld(HeldEscrows)

C26_BalanceStep ==
    IF DOMAIN escrows' # DOMAIN escrows
    THEN \E e \in DOMAIN escrows' \ DOMAIN escrows :
            /\ DOMAIN escrows' = DOMAIN escrows \cup {e}
            /\ escrows'[e].amount > 0
            /\ vaultBalance' = vaultBalance + escrows'[e].amount
    ELSE IF transfers' # transfers
    THEN \E e \in DOMAIN escrows :
            /\ CommittedEscrows[e].state = "Locked"
            /\ escrows'[e].state \in {"Released", "Refunded"}
            /\ Len(transfers'[e]) = Len(transfers[e]) + 1
            /\ vaultBalance' = vaultBalance - escrows[e].amount
    ELSE vaultBalance' = vaultBalance

C26_VaultConservation == []C26_BalanceIsHeldSum /\ [][C26_BalanceStep]_vars

\* One escrow has been paid out, another is still held: the vault holds the
\* amount of the second and nothing of the first.
C26_Witness ==
    \E e1, e2 \in DOMAIN escrows :
        /\ ~Entered
        /\ escrows[e1].state \in {"Released", "Refunded"}
        /\ Len(transfers[e1]) = 1
        /\ escrows[e2].state \in {"Locked", "Disputed"}
        /\ escrows[e1].amount # escrows[e2].amount
        /\ vaultBalance = escrows[e2].amount

\* C27: order/escrow consistency: for every order with a linked escrow, the
\* escrow is Released if and only if the order's status is Delivered, also
\* after a release issued directly at the vault.
C27_ReleasedIffDelivered ==
    \A o \in OrderIds :
        orders[o].escrowId # NoEscrow =>
            (Esc(orders[o].escrowId).state = "Released" <=> orders[o].status = "Delivered")

\* C28: for every escrow created through payOrder, the escrow's recorded buyer
\* is the order's buyer and its recorded seller is the order's seller, so that
\* a refund pays the order's buyer and the order's buyer holds the payer's
\* release and dispute rights at the vault.
C28_EscrowPartiesAreOrderParties ==
    \A o \in OrderIds :
        orders[o].escrowId # NoEscrow =>
            /\ Esc(orders[o].escrowId).buyer = orders[o].buyer
            /\ Esc(orders[o].escrowId).seller = orders[o].seller

\* C29: a Pending order is always payable: whatever other parties have called
\* in the meantime, payOrder by the order's buyer with value totalAmount on a
\* Pending order succeeds.
C29_PendingIsPayable ==
    \A o \in OrderIds :
        (orders[o].orderId # "" /\ orders[o].status = "Pending") =>
            PayOrderCheck(o, orders[o].buyer, orders[o].totalAmount) = "OK"

\* C30: a failed transfer rolls back.  When the recipient of a release or
\* refund cannot take the value the call fails with TransferFailed, and when
\* the recipient rejects the executing transfer the terminal state written
\* before it is undone: the escrows are again as they were when the call
\* began, the escrow is Locked, the vault holds the amount, no transfer is
\* recorded, and the escrow's payer can still release it.  An escrow keeps a
\* terminal state only together with its recorded transfer.
C30_FailedTransferAnswer ==
    \A e \in DOMAIN escrows, op \in {"release", "refund"}, s \in Callers :
        (ResultOf(op, e, s) = "OK" /\ ~CanReceive(Recipient(op, e))) =>
            /\ PayoutResult(op, e, s) = "TransferFailed"
            /\ escrows[e].state = "Locked"
            /\ vaultBalance >= escrows[e].amount

C30_RollbackStep ==
    /\ \A e \in DOMAIN escrows :
          (Entered /\ ~Entered' /\ transfers' = transfers /\ e = inflight.escrowId) =>
              /\ escrows' = inflight.saved
              /\ escrows'[e].state = "Locked"
              /\ vaultBalance' = vaultBalance
              /\ vaultBalance' >= escrows'[e].amount
              /\ (~escrows'[e].disputed => ReleaseResult(e, escrows[e].buyer)' = "OK")
    /\ \A e \in DOMAIN escrows :
          (CommittedEscrows[e].state = "Locked"
             /\ CommittedEscrows'[e].state \in {"Released", "Refunded"}) =>
                Len(transfers'[e]) = Len(transfers[e]) + 1

C30_FailedTransferRollsBack == []C30_FailedTransferAnswer /\ [][C30_RollbackStep]_vars

\* An escrow paid by the OrderManager contract, which takes no plain transfer:
\* its seller's refund fails with TransferFailed, the escrow is Locked with its
\* amount in the vault, and the release to the seller can still succeed.
C30_Witness ==
    \E e \in DOMAIN escrows :
        /\ ~Entered
        /\ escrows[e].state = "Locked"
        /\ ~CanReceive(escrows[e].buyer)
        /\ RefundResult(e, escrows[e].seller) = "OK"
        /\ PayoutResult("refund", e, escrows[e].seller) = "TransferFailed"
        /\ transfers[e] = <<>>
        /\ vaultBalance >= escrows[e].amount
        /\ PayoutResult("release", e, escrows[e].buyer) = "OK"

\* C31: refund authorization while Locked.  On a Locked escrow refundEscrow is
\* accepted from the payee and from the administrator only; the payer and
\* every third party are rejected as Unauthorized at any time, the time after
\* the auto-release deadline included, and a rejected call is no step: the
\* escrow stays Locked with its amount in the vault.
C31_RefundByPayeeOrAdminOnly ==
    \A e \in DOMAIN escrows :
        escrows[e].state = "Locked" =>
            /\ ~escrows[e].disputed
            /\ vaultBalance >= escrows[e].amount
            /\ \A s \in Callers :
                  RefundCheck(e, s) =
                      (IF s = escrows[e].seller \/ s = Owner THEN "OK" ELSE "Unauthorized")

\* A Locked escrow past its deadline: its payer and a stranger may not refund
\* it, its payee and the administrator may.
C31_Witness ==
    \E e \in DOMAIN escrows :
        /\ escrows[e].state = "Locked"
        /\ now >= escrows[e].releaseTime
        /\ escrows[e].buyer = "buyer"
        /\ RefundCheck(e, "buyer") = "Unauthorized"
        /\ RefundCheck(e, "other") = "Unauthorized"
        /\ RefundCheck(e, escrows[e].seller) = "OK"
        /\ RefundCheck(e, Owner) = "OK"

\* C32: initiateDispute succeeds only on a Locked escrow and only for the
\* escrow's payer or payee; it sets the disputed flag and the state Disputed
\* and moves no value.  A call on an unknown id is rejected with NotFound, on a
\* Disputed, Released or Refunded escrow with WrongState, from anybody else
\* with Unauthorized.  The disputed flag is true exactly when the state is
\* Disputed, and it is set only by a step that disputes a Locked escrow; it is
\* cleared only when the transaction that set it is reverted.
UnknownEscrowIds == {EscrowIdOf(o, s, now) : o \in OrderIds, s \in Callers} \ DOMAIN escrows

C32_DisputeRequires ==
    /\ \A e \in DOMAIN escrows :
          /\ escrows[e].disputed <=> escrows[e].state = "Disputed"
          /\ \A s \in Callers :
                InitiateDisputeCheck(e, s) =
                    (IF escrows[e].state # "Locked" THEN "WrongState"
                     ELSE IF s = escrows[e].buyer \/ s = escrows[e].seller THEN "OK"
                     ELSE "Unauthorized")
    /\ \A e \in UnknownEscrowIds, s \in Callers : InitiateDisputeCheck(e, s) = "NotFound"

C32_DisputeStep ==
    \A e \in DOMAIN escrows :
        /\ (~escrows[e].disputed /\ escrows'[e].disputed) =>
              /\ escrows[e].state = "Locked"
              /\ escrows' = [escrows EXCEPT ![e].disputed = TRUE, ![e].state = "Disputed"]
              /\ \E s \in {escrows[e].buyer, escrows[e].seller} :
                    InitiateDisputeCheck(e, s) = "OK"
              /\ vaultBalance' = vaultBalance
              /\ transfers' = transfers
              /\ orderToEscrow' = orderToEscrow
        /\ (escrows[e].disputed /\ ~escrows'[e].disputed) =>
              /\ Entered /\ ~Entered'
              /\ escrows' = inflight.saved
              /\ transfers' = transfers

C32_DisputeOnlyOnLockedByParty == []C32_DisputeRequires /\ [][C32_DisputeStep]_vars

\* A disputed escrow with its amount still in the vault and no transfer made;
\* a second dispute is refused, and so is a dispute of an unknown id.
C32_Witness ==
    \E e \in DOMAIN escrows :
        /\ ~Entered
        /\ escrows[e].state = "Disputed"
        /\ escrows[e].disputed
        /\ transfers[e] = <<>>
        /\ vaultBalance >= escrows[e].amount
        /\ InitiateDisputeCheck(e, escrows[e].buyer) = "WrongState"
        /\ \E u \in UnknownEscrowIds : InitiateDisputeCheck(u, "buyer") = "NotFound"

\* C33: in every reachable state every listing has a unit price greater than
\* 0 and every order a totalAmount greater than 0: createListing rejects a
\* price or a stock that is not positive, and no later operation brings a
\* listing's price to 0.
C33_PricePositive ==
    /\ \A l \in ListingIds, s \in Callers, k \in 0..MaxStock, p \in 0..MaxPrice :
          (listings[l].listingId = "" /\ (p = 0 \/ k = 0)) =>
              CreateListingCheck(l, s, p, k) = "InvalidInput"
    /\ \A l \in ListingIds : listings[l].listingId # "" => listings[l].price > 0
    /\ \A o \in OrderIds : orders[o].orderId # "" => orders[o].totalAmount > 0

\* C34: canAutoRelease(escrowId) returns true exactly when an escrow with that
\* id exists, is Locked, is not disputed and now >= its releaseTime; for an id
\* that was never created it does not return true; and whenever it returns
\* true, releaseEscrow by any caller passes the vault's checks.
C34_CanAutoReleaseExact ==
    \A e \in DOMAIN escrows \cup UnknownEscrowIds :
        /\ CanAutoRelease(e) <=>
              /\ e \in DOMAIN escrows
              /\ escrows[e].state = "Locked"
              /\ ~escrows[e].disputed
              /\ now >= escrows[e].releaseTime
        /\ CanAutoRelease(e) => \A s \in Callers : ReleaseCheck(e, s) = "OK"

\* C35: completed-order events are emitted once.  OrderDelivered is emitted
\* for an order only in the step in which the order's escrow is released to the
\* seller; as an escrow is paid out once, it is then emitted at most once per
\* order: the escrow of an emitting step is Locked with no payout made, and the
\* step makes it Released and pays the order's total to the order's seller.
C35_EmitStep ==
    \A o \in OrderIds :
        EmitsOrderDelivered(o) =>
            LET e == orders[o].escrowId IN
            /\ e \in DOMAIN escrows
            /\ escrows[e].state = "Locked"
            /\ transfers[e] = <<>>
            /\ escrows'[e].state = "Released"
            /\ transfers'[e] = <<[to |-> orders[o].seller, amount |-> orders[o].totalAmount]>>

C35_DeliveredEmittedOnceOnRelease == [][C35_EmitStep]_vars

\* C36: read-model convergence of the escrow indexer.  For each escrow, once
\* the handlers of all the events emitted for it have finished, in whatever
\* order their awaited steps completed, the indexed document's state is the
\* escrow's state in the vault; in particular the document is not 'locked' for
\* an escrow that is Released or Refunded.
AllHandled(e) ==
    \A k \in EmittedEvents(e) :
        <<e, k>> \in DOMAIN handlers /\ handlers[<<e, k>>] = "done"

C36_IndexerConverges ==
    \A e \in DOMAIN escrows :
        (~Entered /\ AllHandled(e)) =>
            /\ e \in DOMAIN indexed
            /\ indexed[e].state = IndexedName(escrows[e].state)

\* C37: createEscrow validates and initialises.  It fails with InvalidInput
\* when the value is not greater than 0, when the payee is the zero address or
\* when the payee is the caller, and a failing call is no step.  A step that
\* adds an escrow adds exactly one, for an order id that had none: Locked, not
\* disputed, amount equal to the value taken into the vault, createdAt = now,
\* releaseTime = now + ESCROW_PERIOD, registered under its order id, and no
\* other record changed.
C37_CreateValidates ==
    \A o \in OrderIds, in \in CreateEscrowInputs :
        (in[3] = 0 \/ in[1] = ZeroAddr \/ in[1] = in[2]) =>
            CreateEscrowCheck(o, in[1], in[2], in[3]) = "InvalidInput"

C37_CreateStep ==
    DOMAIN escrows' # DOMAIN escrows =>
        \E e \in DOMAIN escrows' \ DOMAIN escrows :
            LET r == escrows'[e] IN
            /\ DOMAIN escrows' = DOMAIN escrows \cup {e}
            /\ \A d \in DOMAIN escrows : escrows'[d] = escrows[d]
            /\ r.escrowId = e
            /\ r.state = "Locked"
            /\ ~r.disputed
            /\ r.amount > 0
            /\ vaultBalance' = vaultBalance + r.amount
            /\ r.createdAt = now
            /\ r.releaseTime = now + ESCROW_PERIOD
            /\ r.seller # ZeroAddr /\ r.seller # r.buyer
            /\ orderToEscrow[r.orderId] = NoEscrow
            /\ orderToEscrow' = [orderToEscrow EXCEPT ![r.orderId] = e]
            /\ CreateEscrowCheck(r.orderId, r.seller, r.buyer, r.amount) = "OK"
            /\ transfers'[e] = <<>>

C37_CreateEscrowInitialises == []C37_CreateValidates /\ [][C37_CreateStep]_vars

\* An escrow of amount 2 created at a later time than 0 and registered for its
\* order, while for the other order id a createEscrow without value or with
\* the caller as payee is refused.
C37_Witness ==
    \E e \in DOMAIN escrows, o \in OrderIds :
        /\ escrows[e].state = "Locked"
        /\ escrows[e].amount = 2
        /\ escrows[e].createdAt = now /\ now > 0
        /\ escrows[e].releaseTime = now + ESCROW_PERIOD
        /\ orderToEscrow[escrows[e].orderId] = e
        /\ vaultBalance >= 2
        /\ orderToEscrow[o] = NoEscrow
        /\ CreateEscrowCheck(o, "seller", "buyer", 0) = "InvalidInput"
        /\ CreateEscrowCheck(o, "seller", "seller", 1) = "InvalidInput"
        /\ CreateEscrowCheck(o, "seller", "buyer", 1) = "OK"

====
